---- MODULE Spec2Model ----
(***************************************************************************)
(* A model of the candidate scoring and resolution engine (src/matcher.py), *)
(* of the name matcher (src/utils/name_match.py), of the login             *)
(* (src/scraper/login_headless.py) and of the scraper that fills the       *)
(* record (src/scraper/scrape_from_GImages.py).                            *)
(*                                                                         *)
(* Strings that the code inspects character by character (names) are       *)
(* sequences of one-character strings.  A Python dict is a function whose  *)
(* DOMAIN is its set of keys, so d.get(k) is Get(d, k).                    *)
(***************************************************************************)
EXTENDS Integers, Sequences, FiniteSets, TLC

\* ------------------------------------------------------------------------
\* Bounds of the model
\* ------------------------------------------------------------------------

\* the longest candidate sequence of a record
MaxCands == 2

\* the scorer-invocation counters saturate here
MaxCalls == 2

\* the most result tiles on the page the scraper opens
MaxTiles == 3

\* the profiles the result tiles link to
MaxProfiles == 2

\* the longest candidate sequence of a record that two callers run on at once
MaxShared == 1

\* ------------------------------------------------------------------------
\* src/utils/name_match.py
\* ------------------------------------------------------------------------

\* The characters of the model's names, in code point order.
Chars == << " ", "'", ",", "-", ".", "D", "J", "a", "b", "d", "e", "j", "n", "o", "é" >>

Code(ch) == CHOOSE i \in 1..Len(Chars) : Chars[i] = ch

\* unidecode(): an accented letter becomes its plain letter, ASCII is kept.
Unidecode(ch) == IF ch = "é" THEN "e" ELSE ch

\* str.lower() on one character.
Lower(ch) ==
    CASE ch = "D" -> "d"
      [] ch = "J" -> "j"
      [] OTHER -> ch

\* the class [a-z0-9\s'-] of the regular expression of normalize_name
Kept(ch) == ch \in {"a", "b", "d", "e", "j", "n", "o", " ", "'", "-"}

\* re.sub(r"[^a-z0-9\s'-]+", " ", s): what is left of one character
Scrub(ch) == IF Kept(ch) THEN ch ELSE " "

\* s.split(): the maximal runs of non-blank characters, in order.  The scan
\* keeps the run it is in (cur) and the runs it has closed (acc); the string
\* is walked by halving the range, which keeps the evaluation shallow.
SplitChar(st, ch) ==
    IF ch = " "
    THEN [cur |-> <<>>, acc |-> IF st.cur = <<>> THEN st.acc ELSE Append(st.acc, st.cur)]
    ELSE [cur |-> Append(st.cur, ch), acc |-> st.acc]

RECURSIVE SplitRange(_, _, _, _)
SplitRange(s, st, lo, hi) ==
    IF lo > hi THEN st
    ELSE IF lo = hi THEN SplitChar(st, s[lo])
         ELSE LET mid == (lo + hi) \div 2
                  left == SplitRange(s, st, lo, mid)
              IN  IF Len(left.cur) < 0 THEN left
                  ELSE SplitRange(s, left, mid + 1, hi)

Split(s) ==
    LET st == SplitRange(s, [cur |-> <<>>, acc |-> <<>>], 1, Len(s))
    IN  IF st.cur = <<>> THEN st.acc ELSE Append(st.acc, st.cur)

\* " ".join(tokens)
RECURSIVE Join(_)
Join(tokens) ==
    IF tokens = <<>> THEN <<>>
    ELSE IF Len(tokens) = 1 THEN tokens[1]
    ELSE tokens[1] \o <<" ">> \o Join(Tail(tokens))

normalize_name(s) ==
    Join(Split([i \in 1..Len(s) |-> Scrub(Lower(Unidecode(s[i])))]))

\* Python's order on str: by code point, a proper prefix first
RECURSIVE StrLess(_, _)
StrLess(x, y) ==
    IF y = <<>> THEN FALSE
    ELSE IF x = <<>> THEN TRUE
    ELSE IF x[1] # y[1] THEN Code(x[1]) < Code(y[1])
    ELSE StrLess(Tail(x), Tail(y))

\* sorted(tokens)
RECURSIVE InsertSorted(_, _)
InsertSorted(tok, sorted) ==
    IF sorted = <<>> THEN <<tok>>
    ELSE IF StrLess(tok, sorted[1]) THEN <<tok>> \o sorted
    ELSE <<sorted[1]>> \o InsertSorted(tok, Tail(sorted))

RECURSIVE Sorted(_)
Sorted(tokens) ==
    IF tokens = <<>> THEN <<>>
    ELSE InsertSorted(tokens[1], Sorted(Tail(tokens)))

Max2(x, y) == IF x >= y THEN x ELSE y

\* The longest-common-subsequence table, row by row.  A row is the sequence
\* of its cells for the columns 0..Len(b); columns and rows are walked by
\* halving the range, which keeps the evaluation shallow.
RECURSIVE LcsCells(_, _, _, _, _, _)
LcsCells(prev, ch, b, acc, lo, hi) ==
    IF lo > hi THEN acc
    ELSE IF lo = hi
         THEN Append(acc, IF b[lo] = ch THEN prev[lo] + 1
                          ELSE Max2(prev[lo + 1], acc[lo]))
         ELSE LET mid == (lo + hi) \div 2
                  left == LcsCells(prev, ch, b, acc, lo, mid)
              IN  IF Len(left) = 0 THEN left
                  ELSE LcsCells(prev, ch, b, left, mid + 1, hi)

RECURSIVE LcsRows(_, _, _, _, _)
LcsRows(a, b, prev, lo, hi) ==
    IF lo > hi THEN prev
    ELSE IF lo = hi THEN LcsCells(prev, a[lo], b, <<0>>, 1, Len(b))
         ELSE LET mid == (lo + hi) \div 2
                  upper == LcsRows(a, b, prev, lo, mid)
              IN  IF Len(upper) = 0 THEN upper
                  ELSE LcsRows(a, b, upper, mid + 1, hi)

Lcs(a, b) == LcsRows(a, b, [j \in 1..(Len(b) + 1) |-> 0], 1, Len(a))[Len(b) + 1]

\* fuzz.ratio: 100 * (1 - indel_distance / (len(a) + len(b))), which is
\* 200 * lcs / (len(a) + len(b)); two empty strings are at distance 0 and
\* score 100.  The float is kept as the fraction n / d.
Ratio(a, b) ==
    IF Len(a) + Len(b) = 0 THEN [n |-> 100, d |-> 1]
    ELSE [n |-> 200 * Lcs(a, b), d |-> Len(a) + Len(b)]

\* fuzz.token_sort_ratio
token_sort_ratio(a, b) == Ratio(Join(Sorted(Split(a))), Join(Sorted(Split(b))))

name_similarity(a, b) == token_sort_ratio(normalize_name(a), normalize_name(b))

is_exact_name(a, b) == normalize_name(a) = normalize_name(b)

\* ------------------------------------------------------------------------
\* The person record and the values it holds
\* ------------------------------------------------------------------------

\* Python's None, where a string is expected
None == "None"

\* utils.json_store.NO_IMAGE_TOKEN
NO_IMAGE_TOKEN == "NO_IMAGE"

\* the sentinel with white space around it, as a hand-edited record may hold it
PaddedToken == " NO_IMAGE "

\* the dict without keys
EmptyDict == [k \in {} |-> None]

\* d.get(k), for a key whose values are strings
Get(d, k) == IF k \in DOMAIN d THEN d[k] ELSE None

\* bool(v) of a string or None
Truthy(v) == v # None /\ v # ""

\* v or ""
OrEmpty(v) == IF Truthy(v) THEN v ELSE ""

\* str.strip(), on the photo references of the model
Strip(v) == IF v = PaddedToken THEN NO_IMAGE_TOKEN ELSE v

\* {"error": "no_face_metrics"}
ErrorMarker == [error |-> "no_face_metrics"]

\* a value of the scorer that is no mapping (JSON null once stored)
Null == [null |-> TRUE]

\* the similarity scores of the model, in units of 0.00001
Scores == {0, 95006}

\* what lines 43-45 can do: compare_faces raises; it returns a value that is
\* no mapping; it returns a mapping (without a numeric similarity, or with
\* one) and line 45 prints it; it returns a mapping and the print of line 45
\* raises (a URL that sys.stdout cannot encode, a closed pipe)
ScorerOutcomes ==
    {[kind |-> "raise", fm |-> Null], [kind |-> "none", fm |-> Null],
     [kind |-> "metrics", fm |-> [distance |-> 1]],
     [kind |-> "printfails", fm |-> [sigmoid |-> 95006]]}
    \cup {[kind |-> "metrics", fm |-> [sigmoid |-> s]] : s \in Scores}

\* the processes that run the matcher; the runs of one process are consecutive
Procs == {"r1", "r2"}

SerialProcs == {"r1"}

QueryName == <<"J", "a", "n", "e", " ", "D", "o", "e">>

\* candidate names: one equal to the query name once normalized, one not
\* equal but made of the same tokens
CandNames ==
    { <<"j", "a", "n", "é", " ", " ", "d", "o", "e">>,
      <<"D", "o", "e", ",", " ", "J", "a", "n", "e">> }

Url(i) == "https://www.linkedin.com/in/u" \o ToString(i)

\* what discovery can leave in a candidate entry: whether it has a URL, and
\* its photo fields
KindChoices ==
    { [url |-> TRUE, photo |-> [photo_path |-> "a.jpg"]],
      [url |-> TRUE, photo |-> [photo_path |-> NO_IMAGE_TOKEN]],
      [url |-> TRUE, photo |-> [photo_path |-> PaddedToken, image_file |-> "f.jpg"]],
      [url |-> TRUE, photo |-> [photo_path |-> "", image_file |-> "f.jpg"]],
      [url |-> TRUE, photo |-> EmptyDict],
      [url |-> FALSE, photo |-> [photo_path |-> "a.jpg"]] }

NameChoices == {EmptyDict} \cup {[name |-> n] : n \in CandNames}

UrlField(i, present) == IF present THEN [profile_url |-> Url(i)] ELSE EmptyDict

\* the candidate sequences of a record; the URL is the key of an entry, so
\* no two entries share one
CandSeqs ==
    UNION { { [i \in 1..n |-> UrlField(i, kind[i].url) @@ kind[i].photo @@ nm[i]] :
                kind \in [1..n -> KindChoices], nm \in [1..n -> NameChoices] } :
            n \in 0..MaxCands }

SourceChoices == { <<>>, <<"src1.jpg", "src2.jpg">> }

\* ------------------------------------------------------------------------
\* utils.json_store: the record store
\* ------------------------------------------------------------------------

HasFaceField(c) == "face" \in DOMAIN c /\ c["face"] # Null

\* candidate_has_face(path, url)
candidate_has_face(rec, url) ==
    \E i \in 1..Len(rec.candidates) :
        /\ Get(rec.candidates[i], "profile_url") = url
        /\ HasFaceField(rec.candidates[i])

\* set_candidate_face(path, url, fm)
set_candidate_face(rec, url, fm) ==
    [rec EXCEPT !.candidates =
        [i \in 1..Len(rec.candidates) |->
            IF Get(rec.candidates[i], "profile_url") = url
            THEN [k \in (DOMAIN rec.candidates[i]) \cup {"face"} |->
                     IF k = "face" THEN fm ELSE rec.candidates[i][k]]
            ELSE rec.candidates[i]]]

\* a candidate's numeric similarity score, when it has one
HasScore(c) == "face" \in DOMAIN c /\ "sigmoid" \in DOMAIN c["face"]

ScoreOf(c) == c["face"]["sigmoid"]

\* select_best_candidate(data): the first candidate with the highest score,
\* as <<c>>, or <<>> for None
select_best_candidate(rec) ==
    LET cs == rec.candidates
        scored == {i \in 1..Len(cs) : HasScore(cs[i])}
    IN  IF scored = {} THEN <<>>
        ELSE LET top == CHOOSE i \in scored :
                            /\ \A j \in scored : ScoreOf(cs[j]) <= ScoreOf(cs[i])
                            /\ \A j \in scored : ScoreOf(cs[j]) = ScoreOf(cs[i]) => i <= j
             IN  <<cs[top]>>

\* ------------------------------------------------------------------------
\* src/matcher.py
\* ------------------------------------------------------------------------

FUZZY_MIN == 92

\* the comparison of line 30 without its strip()
IsNoImageUnstripped(c) == OrEmpty(Get(c, "photo_path")) = NO_IMAGE_TOKEN

\* line 30: the candidate is marked "no image"
IsNoImage(c) == Strip(OrEmpty(Get(c, "photo_path"))) = NO_IMAGE_TOKEN

\* line 33: c.get("photo_path") or c.get("image_file")
CandImg(c) ==
    IF Truthy(Get(c, "photo_path")) THEN Get(c, "photo_path") ELSE Get(c, "image_file")

\* line 35 without the image_file fallback of line 33
UsablePhotoPathOnly(c) == Truthy(Get(c, "photo_path")) /\ Truthy(Get(c, "profile_url"))

\* line 35 without the test of the URL
UsableImageOnly(c) == Truthy(CandImg(c))

\* line 35: cand_img and url
Usable(c) == Truthy(CandImg(c)) /\ Truthy(Get(c, "profile_url"))

\* line 39 looking at the entry as loaded at line 25, not at the persisted
\* record
AlreadyScoredSnapshot(rec, c) == HasFaceField(c)

\* line 39 taking an entry with the error marker for one without metrics
AlreadyScoredErrorsRetried(rec, c) ==
    \E i \in 1..Len(rec.candidates) :
        /\ Get(rec.candidates[i], "profile_url") = Get(c, "profile_url")
        /\ HasFaceField(rec.candidates[i])
        /\ rec.candidates[i]["face"] # ErrorMarker

\* line 39 without its check
AlreadyScoredNever(rec, c) == FALSE

\* line 39: metrics already exist in the persisted record
AlreadyScored(rec, c) == candidate_has_face(rec, Get(c, "profile_url"))

\* lines 43-45: the try block raises: the scorer did, or fm.get did on a
\* value that is no mapping, or print did
Raises(outcome) == outcome.kind \in {"raise", "none", "printfails"}

\* line 46 as a handler of the scorer's own errors only
CaughtScorerErrorOnly(outcome) == outcome.kind = "raise"

\* line 46: except Exception catches whatever the try block raised
Caught(outcome) == TRUE

\* lines 42-47 with a store that replaces the entry instead of updating it
StoreOutcomeReplacing(rec, url, outcome) ==
    [rec EXCEPT !.candidates =
        [i \in 1..Len(rec.candidates) |->
            IF Get(rec.candidates[i], "profile_url") = url
            THEN [profile_url |-> url,
                  face |-> IF outcome.kind = "metrics" THEN outcome.fm ELSE ErrorMarker]
            ELSE rec.candidates[i]]]

\* lines 42-47: what the try statement leaves in the record.  Whatever the
\* scorer returned is stored by line 44; when line 45 then raises (fm.get on
\* a value that is no mapping, or print), the handler stores the error marker
\* over it.
StoreOutcome(rec, url, outcome) ==
    CASE outcome.kind = "metrics" -> set_candidate_face(rec, url, outcome.fm)
      [] outcome.kind \in {"none", "printfails"} ->
            set_candidate_face(set_candidate_face(rec, url, outcome.fm), url, ErrorMarker)
      [] OTHER -> set_candidate_face(rec, url, ErrorMarker)

\* the number of set_candidate_face calls of lines 42-47
StoreCount(outcome) == IF outcome.kind \in {"none", "printfails"} THEN 2 ELSE 1

\* line 85 with "and" for "or"
NoInputsBoth(d) == d.source_images = <<>> /\ d.candidates = <<>>

\* line 85: not src_images or not cands
NoInputs(d) == d.source_images = <<>> \/ d.candidates = <<>>

\* line 93: src_images[0] raises IndexError on an empty list
NoSource(d) == d.source_images = <<>>

\* lines 57-58 selecting in the data run_matcher loaded at line 81, before the
\* populate step, instead of loading the record
pick_best_candidate_stale(rec, d) == select_best_candidate(d)

\* pick_best_candidate, lines 57-58: load the persisted record (rec) and select
\* in it; the data of line 81 (d) is not what it reads
pick_best_candidate(rec, d) == select_best_candidate(rec)

\* line 100 with the test inverted
NoBestInverted(b) == b # <<>>

\* line 100: not best
NoBest(b) == b = <<>>

\* lines 86-91 and 101-106
NoMatchResult(d) ==
    [name |-> d.query_name, linkedin_url |-> "no_match",
     image_similarity |-> 0, match_status |-> "no_match"]

\* name_similarity(...) or 0
OrZero(sim) == IF sim.n = 0 THEN [n |-> 0, d |-> 1] ELSE sim

\* line 70 with > for >=
AtLeastStrict(sim, fuzzy_min) == sim.n > fuzzy_min * sim.d

\* sim >= fuzzy_min
AtLeast(sim, fuzzy_min) == sim.n >= fuzzy_min * sim.d

\* lines 63-70 with another literal for the fuzzy verdict
classify_name_status_renamed(query_name, best_name, fuzzy_min) ==
    IF is_exact_name(query_name, best_name) THEN "matched"
    ELSE IF name_similarity(query_name, best_name).n
              >= fuzzy_min * name_similarity(query_name, best_name).d
         THEN "probable_match_fuzzy_name"
         ELSE "no_match"

\* lines 63-70
classify_name_status(query_name, best_name, fuzzy_min) ==
    IF is_exact_name(query_name, best_name) THEN "matched"
    ELSE IF AtLeast(OrZero(name_similarity(query_name, best_name)), fuzzy_min)
         THEN "Probable Match (Fuzzy Name)"
         ELSE "no_match"

\* round(sig, 4): a score in units of 0.00001 to units of 0.0001 (the scores
\* of the model are not half way between two)
Round4(sig) == (sig + 5) \div 10

\* line 109: best.get("name") or ""
BestName(b) == IF "name" \in DOMAIN b THEN b["name"] ELSE <<>>

\* line 110 reading a key the face metrics do not have
BestSigWrongKey(b) == 0

\* line 110: float((best.get("face") or {}).get("sigmoid") or 0.0)
BestSig(b) == IF HasScore(b) THEN ScoreOf(b) ELSE 0

\* lines 108-120
MatchResult(d, b) ==
    [name |-> d.query_name, linkedin_url |-> Get(b, "profile_url"),
     image_similarity |-> Round4(BestSig(b)),
     match_status |-> classify_name_status(d.query_name, BestName(b), FUZZY_MIN)]

\* ------------------------------------------------------------------------
\* The state
\* ------------------------------------------------------------------------

VARIABLES
    record,      \* the persisted person record (the JSON file)
    pc,          \* where each run of run_matcher is
    data,        \* run_matcher's data (line 81)
    candidates,  \* compute_missing_face_metrics' candidates (line 26)
    idx,         \* the position of the for loop of line 28 in candidates
    best,        \* run_matcher's best (line 99): <<>> for None, or <<c>>
    result,      \* what run_matcher returned or raised
    attempts,    \* per run and candidate: compare_faces calls of this run
    writes,      \* per run: set_candidate_face calls of this run
    last,        \* per run: the candidate and outcome of its latest compare_faces call
    calls,       \* per candidate: compare_faces calls overall (saturating)
    passed,      \* the (source image, candidate image) pairs passed to compare_faces
    args,        \* the arguments of a call of classify_name_status on its own
    verdict,     \* what that call returned
    lg,          \* a call of login: its arguments, its position, the browser
    sc           \* a call of scrape_linkedin_images_into_json: arguments and locals

vars == <<record, pc, data, candidates, idx, best, result, attempts, writes, last,
          calls, passed, args, verdict, lg, sc>>

\* what a run reads and writes
runVars == <<record, pc, data, candidates, idx, best, result, attempts, writes, last,
             calls, passed>>

NoLast == [i |-> 0, kind |-> "-", fm |-> Null]

NoArgs == [query_name |-> <<>>, best_name |-> <<>>, fuzzy_min |-> FUZZY_MIN]

NoData == [query_name |-> <<>>, source_images |-> <<>>, candidates |-> <<>>]

NoResult == [kind |-> "none"]

Returned(v) == [kind |-> "return", value |-> v]

Raised == [kind |-> "raise"]

Zeros(n) == [i \in 1..n |-> 0]

\* no call of login, no call of the scraper
NoLogin == [pc |-> "-"]

NoScrape == [pc |-> "-"]

Init ==
    /\ record \in [query_name : {QueryName}, source_images : SourceChoices,
                   candidates : CandSeqs]
    /\ pc = [p \in Procs |-> "idle"]
    /\ data = [p \in Procs |-> NoData]
    /\ candidates = [p \in Procs |-> <<>>]
    /\ idx = [p \in Procs |-> 0]
    /\ best = [p \in Procs |-> <<>>]
    /\ result = [p \in Procs |-> NoResult]
    /\ attempts = [p \in Procs |-> <<>>]
    /\ writes = [p \in Procs |-> 0]
    /\ last = [p \in Procs |-> NoLast]
    /\ calls = Zeros(Len(record.candidates))
    /\ passed = {}
    /\ args = NoArgs
    /\ verdict = "-"
    /\ lg = NoLogin
    /\ sc = NoScrape

\* the locals of a run that starts
Fresh(p) ==
    /\ candidates' = [candidates EXCEPT ![p] = <<>>]
    /\ idx' = [idx EXCEPT ![p] = 0]
    /\ best' = [best EXCEPT ![p] = <<>>]
    /\ attempts' = [attempts EXCEPT ![p] = <<>>]
    /\ writes' = [writes EXCEPT ![p] = 0]
    /\ last' = [last EXCEPT ![p] = NoLast]

\* run_matcher, lines 80-91: nothing to compare
RunMatcherEmpty(p) ==
    /\ pc[p] \in {"idle", "done"}
    /\ NoInputs(record)
    /\ data' = [data EXCEPT ![p] = record]
    /\ result' = [result EXCEPT ![p] = Returned(NoMatchResult(record))]
    /\ pc' = [pc EXCEPT ![p] = "done"]
    /\ Fresh(p)
    /\ UNCHANGED <<record, calls, passed, args, verdict, lg, sc>>

\* run_matcher, lines 80-96: load, take the first source image, call
\* compute_missing_face_metrics
RunMatcherBegin(p) ==
    /\ pc[p] \in {"idle", "done"}
    /\ ~NoInputs(record)
    /\ data' = [data EXCEPT ![p] = record]
    /\ IF NoSource(record)
       THEN /\ result' = [result EXCEPT ![p] = Raised]
            /\ pc' = [pc EXCEPT ![p] = "done"]
       ELSE /\ result' = [result EXCEPT ![p] = NoResult]
            /\ pc' = [pc EXCEPT ![p] = "populate"]
    /\ Fresh(p)
    /\ UNCHANGED <<record, calls, passed, args, verdict, lg, sc>>

\* compute_missing_face_metrics, lines 24-26
PopulateLoad(p) ==
    /\ pc[p] = "populate"
    /\ candidates' = [candidates EXCEPT ![p] = record.candidates]
    /\ idx' = [idx EXCEPT ![p] = 1]
    /\ attempts' = [attempts EXCEPT ![p] = Zeros(Len(record.candidates))]
    /\ pc' = [pc EXCEPT ![p] = "loop"]
    /\ UNCHANGED <<record, data, best, result, writes, last, calls, passed, args, verdict, lg, sc>>

InLoop(p) == pc[p] = "loop" /\ idx[p] <= Len(candidates[p])

Cur(p) == candidates[p][idx[p]]

Continue(p) ==
    /\ idx' = [idx EXCEPT ![p] = idx[p] + 1]
    /\ UNCHANGED <<record, pc, data, candidates, best, result, attempts, writes, last,
                    calls, passed, args, verdict, lg, sc>>

\* lines 30-31
SkipNoImage(p) ==
    /\ InLoop(p)
    /\ IsNoImage(Cur(p))
    /\ Continue(p)

\* lines 33-36
SkipUnusable(p) ==
    /\ InLoop(p)
    /\ ~IsNoImage(Cur(p))
    /\ ~Usable(Cur(p))
    /\ Continue(p)

\* lines 39-40
SkipScored(p) ==
    /\ InLoop(p)
    /\ ~IsNoImage(Cur(p))
    /\ Usable(Cur(p))
    /\ AlreadyScored(record, Cur(p))
    /\ Continue(p)

Bump(n) == IF n < MaxCalls THEN n + 1 ELSE n

\* line 43: compare_faces(src_image, cand_img) is called
InvokeScorer(p) ==
    /\ InLoop(p)
    /\ ~IsNoImage(Cur(p))
    /\ Usable(Cur(p))
    /\ ~AlreadyScored(record, Cur(p))
    /\ pc' = [pc EXCEPT ![p] = "scoring"]
    /\ attempts' = [attempts EXCEPT ![p][idx[p]] = @ + 1]
    /\ calls' = [i \in 1..Len(calls) |-> IF i = idx[p] THEN Bump(calls[i]) ELSE calls[i]]
    /\ passed' = passed \cup {<<data[p].source_images[1], CandImg(Cur(p))>>}
    /\ UNCHANGED <<record, data, candidates, idx, best, result, writes, last, args, verdict, lg, sc>>

\* lines 43-47: compare_faces returns or raises, the outcome is stored
ScorerReturns(p) ==
    /\ pc[p] = "scoring"
    /\ \E outcome \in ScorerOutcomes :
       /\ last' = [last EXCEPT ![p] = [i |-> idx[p], kind |-> outcome.kind, fm |-> outcome.fm]]
       /\ IF Raises(outcome) /\ ~Caught(outcome)
          THEN /\ result' = [result EXCEPT ![p] = Raised]
               /\ pc' = [pc EXCEPT ![p] = "done"]
               /\ UNCHANGED <<record, idx, writes>>
          ELSE /\ record' = StoreOutcome(record, Get(Cur(p), "profile_url"), outcome)
               /\ writes' = [writes EXCEPT ![p] = @ + StoreCount(outcome)]
               /\ idx' = [idx EXCEPT ![p] = idx[p] + 1]
               /\ pc' = [pc EXCEPT ![p] = "loop"]
               /\ UNCHANGED result
    /\ UNCHANGED <<data, candidates, best, attempts, calls, passed, args, verdict, lg, sc>>

\* the loop of line 28 is over: compute_missing_face_metrics returns
PopulateReturn(p) ==
    /\ pc[p] = "loop"
    /\ idx[p] > Len(candidates[p])
    /\ pc' = [pc EXCEPT ![p] = "select"]
    /\ UNCHANGED <<record, data, candidates, idx, best, result, attempts, writes, last,
                    calls, passed, args, verdict, lg, sc>>

\* pick_best_candidate, lines 57-58, and run_matcher, lines 99-106: none
PickNone(p) ==
    /\ pc[p] = "select"
    /\ NoBest(pick_best_candidate(record, data[p]))
    /\ best' = [best EXCEPT ![p] = pick_best_candidate(record, data[p])]
    /\ result' = [result EXCEPT ![p] = Returned(NoMatchResult(data[p]))]
    /\ pc' = [pc EXCEPT ![p] = "done"]
    /\ UNCHANGED <<record, data, candidates, idx, attempts, writes, last, calls, passed, args, verdict, lg, sc>>

\* pick_best_candidate, lines 57-58, and run_matcher, lines 99-100: one
PickBest(p) ==
    /\ pc[p] = "select"
    /\ ~NoBest(pick_best_candidate(record, data[p]))
    /\ best' = [best EXCEPT ![p] = pick_best_candidate(record, data[p])]
    /\ pc' = [pc EXCEPT ![p] = "classify"]
    /\ UNCHANGED <<record, data, candidates, idx, result, attempts, writes, last, calls, passed, args, verdict, lg, sc>>

\* run_matcher, lines 108-120; best.get raises AttributeError on None
Classify(p) ==
    /\ pc[p] = "classify"
    /\ result' = [result EXCEPT ![p] =
                     IF best[p] = <<>> THEN Raised
                     ELSE Returned(MatchResult(data[p], best[p][1]))]
    /\ pc' = [pc EXCEPT ![p] = "done"]
    /\ UNCHANGED <<record, data, candidates, idx, best, attempts, writes, last, calls, passed, args, verdict, lg, sc>>

Step(p) ==
    \/ RunMatcherEmpty(p)
    \/ RunMatcherBegin(p)
    \/ PopulateLoad(p)
    \/ SkipNoImage(p)
    \/ SkipUnusable(p)
    \/ SkipScored(p)
    \/ InvokeScorer(p)
    \/ ScorerReturns(p)
    \/ PopulateReturn(p)
    \/ PickNone(p)
    \/ PickBest(p)
    \/ Classify(p)

\* the runs on a record are serialized: one process, run after run
Next == \E p \in SerialProcs : Step(p)

Spec == Init /\ [][Next]_vars

\* the steps of compute_missing_face_metrics
PopulateStep(p) ==
    \/ PopulateLoad(p)
    \/ SkipNoImage(p)
    \/ SkipUnusable(p)
    \/ SkipScored(p)
    \/ InvokeScorer(p)
    \/ ScorerReturns(p)
    \/ PopulateReturn(p)

\* compute_missing_face_metrics is sequential code, which takes its next step,
\* and a call of compare_faces comes back, with a result or an exception
FairSpec == Spec /\ \A p \in SerialProcs : WF_vars(PopulateStep(p))

\* ------------------------------------------------------------------------
\* classify_name_status on its own, over names and thresholds
\* ------------------------------------------------------------------------

Rep(ch, n) == [i \in 1..n |-> ch]

\* names for the classifier: variants of the query name, and pairs of long
\* names whose similarity is exactly 92, exactly 91 and a little under 92
ClassifyNames ==
    { QueryName,
      <<"j", "a", "n", "é", " ", " ", "d", "o", "e">>,
      <<"D", "o", "e", ",", " ", "J", "a", "n", "e">>,
      <<"J", ".", " ", "D", "o", "e">>,
      <<"J", "a", "n", "e", " ", "D", ".">>,
      <<>>,
      Rep("a", 25), Rep("a", 23) \o Rep("b", 2),
      Rep("a", 100), Rep("a", 91) \o Rep("b", 9),
      Rep("a", 12), Rep("a", 11) \o Rep("b", 1) }

Thresholds == {0, 91, FUZZY_MIN, 100}

InitClassify ==
    /\ record = [query_name |-> QueryName, source_images |-> <<>>, candidates |-> <<>>]
    /\ pc = [p \in Procs |-> "idle"]
    /\ data = [p \in Procs |-> NoData]
    /\ candidates = [p \in Procs |-> <<>>]
    /\ idx = [p \in Procs |-> 0]
    /\ best = [p \in Procs |-> <<>>]
    /\ result = [p \in Procs |-> NoResult]
    /\ attempts = [p \in Procs |-> <<>>]
    /\ writes = [p \in Procs |-> 0]
    /\ last = [p \in Procs |-> NoLast]
    /\ calls = <<>>
    /\ passed = {}
    /\ args \in [query_name : ClassifyNames, best_name : ClassifyNames,
                  fuzzy_min : Thresholds]
    /\ verdict = "-"
    /\ lg = NoLogin
    /\ sc = NoScrape

\* one call of classify_name_status(query_name, best_name, fuzzy_min)
CallClassify ==
    /\ verdict = "-"
    /\ verdict' = classify_name_status(args.query_name, args.best_name, args.fuzzy_min)
    /\ UNCHANGED <<args, runVars, lg, sc>>

NextClassify == CallClassify

SpecClassify == InitClassify /\ [][NextClassify]_vars

\* ------------------------------------------------------------------------
\* src/scraper/login_headless.py
\* ------------------------------------------------------------------------

\* the variables of the matcher and of the classifier
matcherVars == <<runVars, args, verdict>>

\* the calls on the page of lines 33-39, in order
BrowserSteps ==
    <<"goto_login", "wait_for_selector", "fill_username", "fill_password",
      "click", "wait_for_timeout", "goto_feed">>

\* what a call on the page can do: return, raise playwright's TimeoutError,
\* raise another exception (a navigation error, a closed page);
\* wait_for_timeout only sleeps and has no timeout of its own
StepOutcomes(name) ==
    IF name = "wait_for_timeout" THEN {"ok", "error"} ELSE {"ok", "timeout", "error"}

\* lines 16-17: the argument, or the environment variable
OrEnv(arg, env) == IF arg # "" THEN arg ELSE env

\* line 18: not email or not password
MissingCredentials(email, password) == email = "" \/ password = ""

\* the arguments and the environment of a call of login
LoginCalls ==
    [pc : {"call"}, email : {"", "a@b.c"}, password : {"", "pw"},
     env_email : {"", "env@b.c"}, env_password : {"", "envpw"},
     launched : {FALSE}, closed : {FALSE}, step : {0}, fed : {FALSE},
     saved : {FALSE}, pending : {NoResult}, result : {NoResult}]

InitLogin ==
    /\ record = [query_name |-> QueryName, source_images |-> <<>>, candidates |-> <<>>]
    /\ pc = [p \in Procs |-> "idle"]
    /\ data = [p \in Procs |-> NoData]
    /\ candidates = [p \in Procs |-> <<>>]
    /\ idx = [p \in Procs |-> 0]
    /\ best = [p \in Procs |-> <<>>]
    /\ result = [p \in Procs |-> NoResult]
    /\ attempts = [p \in Procs |-> <<>>]
    /\ writes = [p \in Procs |-> 0]
    /\ last = [p \in Procs |-> NoLast]
    /\ calls = <<>>
    /\ passed = {}
    /\ args = NoArgs
    /\ verdict = "-"
    /\ lg \in LoginCalls
    /\ sc = NoScrape

\* lines 15-20: the credentials; without them, return False
LoginCredentials ==
    /\ lg.pc = "call"
    /\ LET email == OrEnv(lg.email, lg.env_email)
           password == OrEnv(lg.password, lg.env_password)
       IN  lg' = IF MissingCredentials(email, password)
                 THEN [lg EXCEPT !.pc = "done", !.result = Returned(FALSE)]
                 ELSE [lg EXCEPT !.pc = "launch"]
    /\ UNCHANGED <<matcherVars, sc>>

\* lines 22-30: the browser, the context and the page; these calls are outside
\* the try statement, so what they raise leaves login
LoginLaunch ==
    /\ lg.pc = "launch"
    /\ \E o \in {"ok", "error"} :
          lg' = IF o = "ok"
                THEN [lg EXCEPT !.pc = "steps", !.launched = TRUE, !.step = 1]
                ELSE [lg EXCEPT !.pc = "done", !.result = Raised]
    /\ UNCHANGED <<matcherVars, sc>>

\* lines 33-39: the next call on the page.  TimeoutError is caught by line 48,
\* after which line 50 returns False; any other exception is not caught.
\* Either way the finally clause of line 51 runs first.
LoginBrowserStep ==
    /\ lg.pc = "steps"
    /\ \E o \in StepOutcomes(BrowserSteps[lg.step]) :
          lg' = CASE o = "timeout" -> [lg EXCEPT !.pc = "finally", !.pending = Returned(FALSE)]
                  [] o = "error" -> [lg EXCEPT !.pc = "finally", !.pending = Raised]
                  [] OTHER -> IF lg.step < Len(BrowserSteps)
                              THEN [lg EXCEPT !.step = lg.step + 1]
                              ELSE [lg EXCEPT !.pc = "check"]
    /\ UNCHANGED <<matcherVars, sc>>

\* lines 40-42: still on the login page, return False
LoginCheckUrl ==
    /\ lg.pc = "check"
    /\ \E onLogin \in BOOLEAN :
          lg' = IF onLogin
                THEN [lg EXCEPT !.pc = "finally", !.pending = Returned(FALSE)]
                ELSE [lg EXCEPT !.pc = "save", !.fed = TRUE]
    /\ UNCHANGED <<matcherVars, sc>>

\* lines 44-46: context.storage_state(path=state_file) writes the session
\* state, return True; what it raises (a state file that cannot be written)
\* is no TimeoutError
LoginSaveState ==
    /\ lg.pc = "save"
    /\ \E o \in {"ok", "error"} :
          lg' = IF o = "ok"
                THEN [lg EXCEPT !.pc = "finally", !.saved = TRUE, !.pending = Returned(TRUE)]
                ELSE [lg EXCEPT !.pc = "finally", !.pending = Raised]
    /\ UNCHANGED <<matcherVars, sc>>

\* lines 51-53: the finally clause closes the context and the browser, then
\* login returns or raises what was pending
LoginFinally ==
    /\ lg.pc = "finally"
    /\ lg' = [lg EXCEPT !.pc = "done", !.closed = TRUE, !.result = lg.pending]
    /\ UNCHANGED <<matcherVars, sc>>

NextLogin ==
    \/ LoginCredentials
    \/ LoginLaunch
    \/ LoginBrowserStep
    \/ LoginCheckUrl
    \/ LoginSaveState
    \/ LoginFinally

SpecLogin == InitLogin /\ [][NextLogin]_vars

\* ------------------------------------------------------------------------
\* src/scraper/scrape_from_GImages.py
\* ------------------------------------------------------------------------

\* str.strip() on a sequence of characters
RECURSIVE LStrip(_)
LStrip(s) == IF s # <<>> /\ Head(s) = " " THEN LStrip(Tail(s)) ELSE s

RECURSIVE RStrip(_)
RStrip(s) == IF s # <<>> /\ s[Len(s)] = " " THEN RStrip(SubSeq(s, 1, Len(s) - 1)) ELSE s

StripBlanks(s) == LStrip(RStrip(s))

\* the string of a sequence of characters
RECURSIVE Concat(_)
Concat(s) == IF s = <<>> THEN "" ELSE Head(s) \o Concat(Tail(s))

\* the class [a-z0-9] of _slugify, on the characters of the model
SlugKept(ch) == ch \in {"a", "b", "d", "e", "j", "n", "o"}

RECURSIVE JoinDash(_)
JoinDash(tokens) ==
    IF tokens = <<>> THEN <<>>
    ELSE IF Len(tokens) = 1 THEN tokens[1]
    ELSE tokens[1] \o <<"-">> \o JoinDash(Tail(tokens))

\* _slugify, lines 19-22: lower case, every run of other characters becomes
\* one "-", no "-" at either end, "image" if nothing is left
_slugify(s) ==
    LET runs == Split([i \in 1..Len(s) |->
                          IF SlugKept(Lower(s[i])) THEN Lower(s[i]) ELSE " "])
    IN  IF runs = <<>> THEN "image" ELSE Concat(JoinDash(runs))

\* _profile_handle, lines 25-32: the path segment after /in/
_profile_handle(url) == "u" \o ToString(CHOOSE i \in 1..MaxProfiles : url = Url(i))

\* the dashes of the regular expression of _title_to_name: the hyphen, the en
\* dash and the em dash, the last two written by their names
Dashes == {"-", "ndash", "mdash"}

\* _title_to_name, lines 84-88: the text before the first dash with a blank
\* on either side
_title_to_name(title) ==
    LET t == StripBlanks(title)
        cuts == {i \in 1..(Len(t) - 2) :
                    t[i] = " " /\ t[i + 1] \in Dashes /\ t[i + 2] = " "}
    IN  IF t = <<>> THEN <<>>
        ELSE IF cuts = {} THEN t
        ELSE StripBlanks(SubSeq(t, 1, (CHOOSE i \in cuts : \A j \in cuts : i <= j) - 1))

\* A data URL of a tile is its media type (mime) and its base64 payload
\* (b64): well-formed ("ok"), malformed ("bad") or empty.

\* _parse_data_url, lines 62-81: <<>> for None (no payload, or one that
\* base64 cannot decode), or <<ext>>
_parse_data_url(data_url) ==
    IF data_url.b64 # "ok" THEN <<>>
    ELSE CASE data_url.mime \in {"image/jpeg", "image/jpg"} -> <<".jpg">>
           [] data_url.mime = "image/png" -> <<".png">>
           [] data_url.mime = "image/webp" -> <<".webp">>
           [] OTHER -> <<".bin">>

\* lines 181 and 239-240: dest_dir / handle, with the suffix ext
OutPath(full_name, prof, ext) ==
    "Persons_photos/" \o _slugify(full_name) \o "/" \o _profile_handle(prof) \o ext

\* the tiles _collect_by_forward_scan_python finds on the page: a thumbnail
\* that is a jpeg or webp data URL, the profile URL of the link that follows
\* it, and the link's title
Tiles ==
    { [data_url |-> [mime |-> "image/jpeg", b64 |-> "ok"], href |-> Url(1),
       title |-> <<"A", "l", " ", "-", " ", "X">>],
      [data_url |-> [mime |-> "image/jpeg", b64 |-> "bad"], href |-> Url(1),
       title |-> <<>>],
      [data_url |-> [mime |-> "image/webp", b64 |-> "ok"], href |-> Url(2),
       title |-> <<" ", "B", "o">>],
      [data_url |-> [mime |-> "image/webp", b64 |-> ""], href |-> Url(2),
       title |-> <<"B", "o", " ", "ndash", " ", "Y">>] }

TileSeqs == UNION { [1..n -> Tiles] : n \in 0..MaxTiles }

\* _collect_by_forward_scan_python, lines 117-158: at most max_collect tiles,
\* in page order
_collect(tiles, max_collect) ==
    SubSeq(tiles, 1, IF Len(tiles) < max_collect THEN Len(tiles) ELSE max_collect)

\* utils.json_store.upsert_candidate(path, url, name, photo_path=None): the
\* entry of the URL gets the name, if one is given, and the photo path, if
\* one is given; without such an entry, one is appended
upsert_candidate(rec, url, name, photo) ==
    LET given == (IF name # <<>> THEN {"name"} ELSE {})
                     \cup (IF photo # None THEN {"photo_path"} ELSE {})
        val(k) == IF k = "name" THEN name ELSE photo
        updated(c) == [k \in (DOMAIN c) \cup given |-> IF k \in given THEN val(k) ELSE c[k]]
        fresh == [k \in {"profile_url", "name"} \cup given |->
                     IF k = "profile_url" THEN url
                     ELSE IF k = "name" THEN name ELSE photo]
        cs == rec.candidates
    IN  IF \E i \in 1..Len(cs) : Get(cs[i], "profile_url") = url
        THEN [rec EXCEPT !.candidates =
                 [i \in 1..Len(cs) |->
                     IF Get(cs[i], "profile_url") = url THEN updated(cs[i]) ELSE cs[i]]]
        ELSE [rec EXCEPT !.candidates = Append(cs, fresh)]

\* utils.json_store.candidate_has_photo(path, url): the entry of the URL has
\* a photo path (the sentinel marks an entry as processed)
candidate_has_photo(rec, url) ==
    \E i \in 1..Len(rec.candidates) :
        /\ Get(rec.candidates[i], "profile_url") = url
        /\ Truthy(Get(rec.candidates[i], "photo_path"))

\* the values of limit
Limits == {0, 1, 2}

\* line 206: max_collect=limit * 5
MaxCollect(limit) == limit * 5

\* the candidates a record holds before a call of the scraper
ScrapeCands ==
    { <<>>,
      <<[profile_url |-> Url(1), name |-> <<"A", "l">>, photo_path |-> "old.jpg"]>>,
      <<[profile_url |-> Url(1), name |-> <<>>]>>,
      <<[profile_url |-> Url(2), name |-> <<"B", "o">>, photo_path |-> NO_IMAGE_TOKEN]>> }

\* what the try block of lines 242-249 can do: write the file, store its path
\* and print; fail to make the directory or to write the file; write the
\* file, store its path and fail to print (a name that sys.stdout cannot
\* encode, a closed pipe)
SaveOutcomes == {"ok", "writefails", "printfails"}

ScrapeCalls ==
    [pc : {"call"}, limit : Limits, tiles : TileSeqs, cards : {<<>>}, k : {0},
     saved : {0}, seen_profiles : {{}}, files : {{}}, handled : {<<>>},
     before : {<<>>}, result : {NoResult}]

InitScrape ==
    /\ record \in [query_name : {QueryName, <<" ">>}, source_images : {<<"src1.jpg">>},
                   candidates : ScrapeCands]
    /\ pc = [p \in Procs |-> "idle"]
    /\ data = [p \in Procs |-> NoData]
    /\ candidates = [p \in Procs |-> <<>>]
    /\ idx = [p \in Procs |-> 0]
    /\ best = [p \in Procs |-> <<>>]
    /\ result = [p \in Procs |-> NoResult]
    /\ attempts = [p \in Procs |-> <<>>]
    /\ writes = [p \in Procs |-> 0]
    /\ last = [p \in Procs |-> NoLast]
    /\ calls = <<>>
    /\ passed = {}
    /\ args = NoArgs
    /\ verdict = "-"
    /\ lg = NoLogin
    /\ sc \in ScrapeCalls

scrapeOthers == <<pc, data, candidates, idx, best, result, attempts, writes, last,
                  calls, passed, args, verdict, lg>>

\* lines 172-183: load the record; without a query name, return 0
ScrapeCall ==
    /\ sc.pc = "call"
    /\ sc' = IF StripBlanks(record.query_name) = <<>>
             THEN [sc EXCEPT !.pc = "done", !.result = Returned(0),
                             !.before = record.candidates]
             ELSE [sc EXCEPT !.pc = "open", !.before = record.candidates]
    /\ UNCHANGED <<record, scrapeOthers>>

\* lines 184-208: the browser and the page.  A TimeoutError of lines 198-200
\* returns 0; another exception leaves the function; otherwise the tiles are
\* collected and the loop starts with saved = 0 and nothing seen.
ScrapeOpen ==
    /\ sc.pc = "open"
    /\ \E o \in {"ok", "timeout", "error"} :
          sc' = CASE o = "timeout" -> [sc EXCEPT !.pc = "done", !.result = Returned(0)]
                  [] o = "error" -> [sc EXCEPT !.pc = "done", !.result = Raised]
                  [] OTHER -> [sc EXCEPT !.pc = "loop", !.k = 1,
                                         !.cards = _collect(sc.tiles, MaxCollect(sc.limit))]
    /\ UNCHANGED <<record, scrapeOthers>>

InCards == sc.pc = "loop" /\ sc.k <= Len(sc.cards)

Card == sc.cards[sc.k]

\* line 222
NameGuess == _title_to_name(Card.title)

\* lines 210-211: enough photos saved, leave the loop
ScrapeBreak ==
    /\ InCards
    /\ sc.saved >= sc.limit
    /\ sc' = [sc EXCEPT !.pc = "close"]
    /\ UNCHANGED <<record, scrapeOthers>>

\* lines 217-218: no profile URL, or one this call has seen
ScrapeSkipSeen ==
    /\ InCards
    /\ sc.saved < sc.limit
    /\ Card.href = "" \/ Card.href \in sc.seen_profiles
    /\ sc' = [sc EXCEPT !.k = sc.k + 1]
    /\ UNCHANGED <<record, scrapeOthers>>

\* lines 213-225: a profile this call has not seen; it is seen now and the
\* record has an entry for it, with the name guessed from the title
Handle ==
    /\ InCards
    /\ sc.saved < sc.limit
    /\ Card.href # "" /\ Card.href \notin sc.seen_profiles

Upserted == upsert_candidate(record, Card.href, NameGuess, None)

Seen == [sc EXCEPT !.k = sc.k + 1, !.seen_profiles = @ \cup {Card.href},
                   !.handled = Append(@, Card.href)]

\* lines 228-229: the entry has a photo already
ScrapeHasPhoto ==
    /\ Handle
    /\ candidate_has_photo(Upserted, Card.href)
    /\ record' = Upserted
    /\ sc' = Seen
    /\ UNCHANGED scrapeOthers

\* lines 232-236: the thumbnail cannot be decoded, the entry gets the sentinel
ScrapeNoImage ==
    /\ Handle
    /\ ~candidate_has_photo(Upserted, Card.href)
    /\ _parse_data_url(Card.data_url) = <<>>
    /\ record' = upsert_candidate(Upserted, Card.href, NameGuess, NO_IMAGE_TOKEN)
    /\ sc' = Seen
    /\ UNCHANGED scrapeOthers

\* lines 238-251: the thumbnail is written to out_path, the entry gets the
\* path and saved goes up; if anything in the try block raises, the handler
\* gives the entry the sentinel
ScrapeSave ==
    /\ Handle
    /\ ~candidate_has_photo(Upserted, Card.href)
    /\ _parse_data_url(Card.data_url) # <<>>
    /\ LET out_path == OutPath(StripBlanks(record.query_name), Card.href,
                               _parse_data_url(Card.data_url)[1])
           withPath == upsert_candidate(Upserted, Card.href, NameGuess, out_path)
           withToken(rec) == upsert_candidate(rec, Card.href, NameGuess, NO_IMAGE_TOKEN)
       IN  \E o \in SaveOutcomes :
              CASE o = "ok" ->
                      /\ record' = withPath
                      /\ sc' = [Seen EXCEPT !.files = @ \cup {<<Card.href, out_path>>},
                                            !.saved = sc.saved + 1]
                [] o = "writefails" ->
                      /\ record' = withToken(Upserted)
                      /\ sc' = Seen
                [] OTHER ->
                      /\ record' = withToken(withPath)
                      /\ sc' = [Seen EXCEPT !.files = @ \cup {<<Card.href, out_path>>}]
    /\ UNCHANGED scrapeOthers

\* the loop of line 209 is over
ScrapeEnd ==
    /\ sc.pc = "loop"
    /\ sc.k > Len(sc.cards)
    /\ sc' = [sc EXCEPT !.pc = "close"]
    /\ UNCHANGED <<record, scrapeOthers>>

\* lines 254-257: close the browser, return saved
ScrapeClose ==
    /\ sc.pc = "close"
    /\ sc' = [sc EXCEPT !.pc = "done", !.result = Returned(sc.saved)]
    /\ UNCHANGED <<record, scrapeOthers>>

NextScrape ==
    \/ ScrapeCall
    \/ ScrapeOpen
    \/ ScrapeBreak
    \/ ScrapeSkipSeen
    \/ ScrapeHasPhoto
    \/ ScrapeNoImage
    \/ ScrapeSave
    \/ ScrapeEnd
    \/ ScrapeClose

SpecScrape == InitScrape /\ [][NextScrape]_vars

\* ------------------------------------------------------------------------
\* Records that hold a profile URL twice; runs that are not serialized
\* ------------------------------------------------------------------------

\* entries for either of two URLs: with a photo, with the sentinel, without
\* photo reference
DupEntries ==
    { [profile_url |-> Url(1), photo_path |-> "a.jpg"],
      [profile_url |-> Url(1), image_file |-> "f.jpg"],
      [profile_url |-> Url(2), photo_path |-> "b.jpg"],
      [profile_url |-> Url(2), photo_path |-> NO_IMAGE_TOKEN],
      [profile_url |-> Url(2)] }

\* the candidate sequences of such entries, where entries may share a URL
DupSeqs == UNION { [1..n -> DupEntries] : n \in 0..MaxCands }

\* the locals of the runs and the rest of the state, before any run
NoRuns ==
    /\ pc = [p \in Procs |-> "idle"]
    /\ data = [p \in Procs |-> NoData]
    /\ candidates = [p \in Procs |-> <<>>]
    /\ idx = [p \in Procs |-> 0]
    /\ best = [p \in Procs |-> <<>>]
    /\ result = [p \in Procs |-> NoResult]
    /\ attempts = [p \in Procs |-> <<>>]
    /\ writes = [p \in Procs |-> 0]
    /\ last = [p \in Procs |-> NoLast]
    /\ calls = Zeros(Len(record.candidates))
    /\ passed = {}
    /\ args = NoArgs
    /\ verdict = "-"
    /\ lg = NoLogin
    /\ sc = NoScrape

InitDup ==
    /\ record \in [query_name : {QueryName}, source_images : {<<"src1.jpg">>},
                   candidates : DupSeqs]
    /\ NoRuns

\* consecutive runs on a record whose entries may share a URL
SpecDup == InitDup /\ [][Next]_vars

\* the photo fields of the entries of a record that two callers run on
SharedPhotos == { [photo_path |-> "a.jpg"], [photo_path |-> NO_IMAGE_TOKEN], EmptyDict }

\* the candidate sequences of such a record, each entry with a URL of its own
SharedSeqs ==
    UNION { { [i \in 1..n |-> [profile_url |-> Url(i)] @@ ph[i]] : ph \in [1..n -> SharedPhotos] } :
            n \in 0..MaxShared }

InitConcurrent ==
    /\ record \in [query_name : {QueryName}, source_images : {<<"src1.jpg">>},
                   candidates : SharedSeqs]
    /\ NoRuns

\* two callers run the matcher on the same record, their steps interleaved
NextConcurrent == \E p \in Procs : Step(p)

SpecConcurrent == InitConcurrent /\ [][NextConcurrent]_vars

\* ------------------------------------------------------------------------
\* What the properties speak of
\* ------------------------------------------------------------------------

Cands == record.candidates

\* the photo reference of the entry is the "no image available" sentinel
SentinelMarked(c) ==
    "photo_path" \in DOMAIN c /\ c["photo_path"] \in {NO_IMAGE_TOKEN, PaddedToken}

\* the entry has a photo reference that is not the sentinel, and a URL
Eligible(c) ==
    /\ "profile_url" \in DOMAIN c
    /\ ~SentinelMarked(c)
    /\ \E k \in {"photo_path", "image_file"} : k \in DOMAIN c /\ c[k] # ""

\* the entry has face metrics with a numeric similarity score
UsableScore(c) == "face" \in DOMAIN c /\ "sigmoid" \in DOMAIN c["face"]

\* the entry has the face metrics of a scoring that succeeded
Successful(c) == "face" \in DOMAIN c /\ c["face"] # ErrorMarker /\ c["face"] # Null

ResultFields == {"name", "linkedin_url", "image_similarity", "match_status"}

\* the result of a run is the no_match result
IsNoMatch(r) ==
    /\ r.kind = "return"
    /\ r.value["match_status"] = "no_match"
    /\ r.value["image_similarity"] = 0
    /\ r.value["linkedin_url"] = "no_match"

\* the result of a run names a candidate
NamesCandidate(r) == r.kind = "return" /\ r.value["linkedin_url"] # "no_match"

\* the record without the face metrics of its candidates
Frame(rec) ==
    [rec EXCEPT !.candidates =
        [i \in 1..Len(rec.candidates) |->
            [k \in (DOMAIN rec.candidates[i]) \ {"face"} |-> rec.candidates[i][k]]]]

\* ------------------------------------------------------------------------
\* Properties
\* ------------------------------------------------------------------------

C1_NotRescored ==
    /\ \A p \in Procs : pc[p] = "scoring" => "face" \notin DOMAIN Cands[idx[p]]
    /\ \A i \in 1..Len(calls) : calls[i] <= 1

C1_SuccessKept ==
    \A i \in 1..Len(Cands) :
        Successful(Cands[i]) => record'.candidates[i]["face"] = Cands[i]["face"]

\* C1: over consecutive runs on a record, compare_faces is never called for a
\* candidate whose face metrics are present (a scorer result or the error
\* marker), so it is called at most once per candidate, and no step changes
\* the face metrics of a scoring that succeeded.
C1_AtMostOnceScoring == [](C1_NotRescored) /\ [][C1_SuccessKept]_vars

\* a later run has passed over a candidate that an earlier run scored
C1_Witness ==
    \E p \in Procs : \E i \in 1..Len(Cands) :
        /\ pc[p] = "select"
        /\ attempts[p][i] = 0
        /\ calls[i] = 1
        /\ Successful(Cands[i])

\* C2: a candidate marked with the "no image available" sentinel is never
\* passed to compare_faces and never has face metrics, whatever the number
\* of runs.
C2_SentinelNeverScored ==
    /\ \A i \in 1..Len(Cands) :
          SentinelMarked(Cands[i]) => calls[i] = 0 /\ "face" \notin DOMAIN Cands[i]
    /\ \A pr \in passed : pr[2] \notin {NO_IMAGE_TOKEN, PaddedToken}

\* a second populate run is over on a record with a sentinel-marked candidate
C2_Witness ==
    \E p \in Procs : \E i, j \in 1..Len(Cands) :
        /\ pc[p] = "select"
        /\ SentinelMarked(Cands[i])
        /\ "profile_url" \in DOMAIN Cands[i]
        /\ calls[j] = 1
        /\ attempts[p][j] = 0

\* C3: no run ends with an exception of the per-candidate step; a scoring
\* that failed has left the error marker on its candidate; and the loop has
\* gone over every candidate by the time the populate step is over.
C3_FailureIsRecorded ==
    \A p \in Procs :
        /\ result[p] # Raised
        /\ last[p].kind \in {"raise", "none", "printfails"} =>
              /\ "face" \in DOMAIN Cands[last[p].i]
              /\ Cands[last[p].i]["face"] = ErrorMarker
        /\ pc[p] \in {"select", "classify"} => idx[p] = Len(candidates[p]) + 1

\* the scoring of the first candidate failed and the second was scored next
C3_Witness ==
    \E p \in Procs :
        /\ pc[p] = "select"
        /\ Len(candidates[p]) = 2
        /\ attempts[p][1] = 1 /\ attempts[p][2] = 1
        /\ Cands[1]["face"] = ErrorMarker
        /\ Successful(Cands[2])

\* C4 as stated: every result has exactly the four fields, and its
\* match_status is matched, probable_match_fuzzy_name or no_match.
C4_StatusAsStated ==
    \A p \in Procs :
        result[p].kind = "return" =>
            /\ DOMAIN result[p].value = ResultFields
            /\ result[p].value["match_status"] \in
                  {"matched", "probable_match_fuzzy_name", "no_match"}

\* C4, amended: every result has exactly the four fields, and its
\* match_status is matched, Probable Match (Fuzzy Name) or no_match.
C4_StatusOfTheCode ==
    \A p \in Procs :
        result[p].kind = "return" =>
            /\ DOMAIN result[p].value = ResultFields
            /\ result[p].value["match_status"] \in
                  {"matched", "Probable Match (Fuzzy Name)", "no_match"}

\* a run has returned the fuzzy verdict
C4_Witness ==
    \E p \in Procs :
        /\ result[p].kind = "return"
        /\ result[p].value["match_status"] = "Probable Match (Fuzzy Name)"

\* C5: a run on a record without source images or without candidates returns
\* the no_match result, has called neither compare_faces nor
\* set_candidate_face, and has left the record as it was.
C5_EmptyInputs ==
    \A p \in Procs :
        (pc[p] = "done" /\ (data[p].source_images = <<>> \/ data[p].candidates = <<>>)) =>
            /\ IsNoMatch(result[p])
            /\ attempts[p] = <<>>
            /\ writes[p] = 0
            /\ last[p] = NoLast
            /\ record = data[p]

\* a run is over on a record with candidates and no source image
C5_Witness ==
    \E p \in Procs :
        /\ pc[p] = "done"
        /\ data[p].source_images = <<>>
        /\ data[p].candidates # <<>>
        /\ result[p].kind = "return"

\* C6: a run that ends while no candidate has a numeric similarity score
\* returns the no_match result, and a run returns the URL of a candidate
\* only if that candidate has a numeric similarity score.
C6_NoUsableScore ==
    \A p \in Procs :
        pc[p] = "done" =>
            /\ (\A i \in 1..Len(Cands) : ~UsableScore(Cands[i])) => IsNoMatch(result[p])
            /\ NamesCandidate(result[p]) =>
                  \E i \in 1..Len(Cands) :
                      /\ UsableScore(Cands[i])
                      /\ Get(Cands[i], "profile_url") = result[p].value["linkedin_url"]

\* a run is over after scoring attempts that left no usable score
C6_Witness ==
    \E p \in Procs :
        /\ pc[p] = "done"
        /\ Len(attempts[p]) = Len(Cands)
        /\ \E i \in 1..Len(Cands) : attempts[p][i] = 1
        /\ \A i \in 1..Len(Cands) : ~UsableScore(Cands[i])
        /\ \E i \in 1..Len(Cands) : SentinelMarked(Cands[i])

\* candidate i is the first of the candidates with the highest score
FirstMax(i) ==
    /\ UsableScore(Cands[i])
    /\ \A j \in 1..Len(Cands) :
          UsableScore(Cands[j]) => Cands[j]["face"]["sigmoid"] <= Cands[i]["face"]["sigmoid"]
    /\ \A j \in 1..(i - 1) :
          UsableScore(Cands[j]) => Cands[j]["face"]["sigmoid"] < Cands[i]["face"]["sigmoid"]

\* C7: the candidate a run selects, and the one it returns, is the first of
\* the candidates with the highest numeric score; the URL is that
\* candidate's and the similarity is its score rounded to four decimals.
\* The candidate is determined by the record, so selecting again on an
\* unchanged record selects it again.
C7_BestIsFirstMax ==
    \A p \in Procs :
        /\ (pc[p] \in {"classify", "done"} /\ best[p] # <<>>) =>
              \E i \in 1..Len(Cands) : FirstMax(i) /\ best[p][1] = Cands[i]
        /\ (pc[p] = "done" /\ NamesCandidate(result[p])) =>
              \E i \in 1..Len(Cands) :
                  /\ FirstMax(i)
                  /\ result[p].value["linkedin_url"] = Get(Cands[i], "profile_url")
                  /\ 10 * result[p].value["image_similarity"] - 5 <= Cands[i]["face"]["sigmoid"]
                  /\ Cands[i]["face"]["sigmoid"] < 10 * result[p].value["image_similarity"] + 5

\* a run that scored nothing itself has returned the first of two candidates
\* with the same score
C7_Witness ==
    \E p \in Procs :
        /\ pc[p] = "done"
        /\ Len(Cands) = 2
        /\ UsableScore(Cands[1]) /\ UsableScore(Cands[2])
        /\ Cands[1]["face"]["sigmoid"] = Cands[2]["face"]["sigmoid"]
        /\ Cands[1]["face"]["sigmoid"] > 0
        /\ attempts[p] = <<0, 0>>
        /\ NamesCandidate(result[p])
        /\ result[p].value["linkedin_url"] = Url(1)

\* C8: classify_name_status returns matched exactly when the normalized
\* names are equal, whatever the threshold; for names that are not equal it
\* returns no_match exactly when the similarity is below the threshold, and
\* the fuzzy verdict otherwise, so also when the two are equal.
C8_ClassifyRules ==
    verdict # "-" =>
        LET exact == normalize_name(args.query_name) = normalize_name(args.best_name)
            sim == name_similarity(args.query_name, args.best_name)
            below == sim.n < args.fuzzy_min * sim.d
        IN  /\ verdict = "matched" <=> exact
            /\ ~exact => (verdict = "no_match" <=> below)
            /\ (~exact /\ ~below) => verdict = "Probable Match (Fuzzy Name)"

\* two names of similarity 92 got the fuzzy verdict at the default threshold
C8_Witness ==
    /\ verdict = "Probable Match (Fuzzy Name)"
    /\ args.fuzzy_min = FUZZY_MIN
    /\ name_similarity(args.query_name, args.best_name).n
          = FUZZY_MIN * name_similarity(args.query_name, args.best_name).d

C9_FrameKept == Frame(record') = Frame(record)

C9_OnlyScoringWrites == (\A p \in Procs : pc[p] # "scoring") => record' = record

\* C9: no step changes the record but for the face metrics of its
\* candidates (no candidate is added, deleted, moved or renamed), and only
\* the step that stores a scoring outcome changes the record at all: the
\* selection and the classification do not.
C9_OnlyFaceMetricsChange == [][C9_FrameKept /\ C9_OnlyScoringWrites]_vars

\* a run wrote face metrics, selected a candidate and returned it
C9_Witness ==
    \E p \in Procs :
        /\ pc[p] = "done"
        /\ writes[p] >= 1
        /\ NamesCandidate(result[p])

\* when compute_missing_face_metrics returns, every eligible candidate has
\* face metrics in the record, and the run has called compare_faces once for
\* each eligible candidate that had none and for no other candidate
C10_AllScored ==
    \A p \in Procs :
        pc[p] = "select" =>
            \A i \in 1..Len(candidates[p]) :
                IF Eligible(candidates[p][i])
                THEN /\ "face" \in DOMAIN Cands[i]
                     /\ Cands[i]["face"] # Null
                     /\ attempts[p][i] = IF "face" \in DOMAIN candidates[p][i] THEN 0 ELSE 1
                ELSE attempts[p][i] = 0

\* C10: compute_missing_face_metrics, once called, returns; and when it
\* returns every eligible candidate has face metrics in the persisted
\* record, after exactly one scoring attempt of this run for each eligible
\* candidate that had none.
C10_PopulateCompletes ==
    /\ [](C10_AllScored)
    /\ \A p \in SerialProcs : (pc[p] = "populate") ~> (pc[p] = "select")

\* a populate run is over in which two eligible candidates were scored, the
\* first one without success
C10_Witness ==
    \E p \in Procs :
        /\ pc[p] = "select"
        /\ Len(candidates[p]) = 2
        /\ Eligible(candidates[p][1]) /\ Eligible(candidates[p][2])
        /\ attempts[p] = <<1, 1>>
        /\ Cands[1]["face"] = ErrorMarker

\* the call of login had no email or no password, argument or environment
C11_NoCredentials ==
    (lg.email = "" /\ lg.env_email = "") \/ (lg.password = "" /\ lg.env_password = "")

\* C11 as stated: login returns True or False; it returns True exactly when
\* the login left the login page and the session state was saved; and
\* without credentials it returns False and has launched no browser.
C11_LoginReturnsBool ==
    lg.pc = "done" =>
        /\ lg.result \in {Returned(TRUE), Returned(FALSE)}
        /\ lg.result = Returned(TRUE) <=> (lg.fed /\ lg.saved)
        /\ C11_NoCredentials => (lg.result = Returned(FALSE) /\ ~lg.launched)

\* the positions a run can go to from a position
C12_After(at) ==
    CASE at \in {"idle", "done"} -> {"populate", "done"}
      [] at = "populate" -> {"loop"}
      [] at = "loop" -> {"loop", "scoring", "select"}
      [] at = "scoring" -> {"loop", "done"}
      [] at = "select" -> {"classify", "done"}
      [] at = "classify" -> {"done"}

\* a step of a run goes forward, and through the candidates in stored order:
\* a call of the scorer starts in the loop, so after the call before it came
\* back, and for the candidate the loop is at, whose successors have not
\* been scored in this run
C12_StepsForward ==
    \A p \in Procs :
        /\ pc'[p] # pc[p] => pc'[p] \in C12_After(pc[p])
        /\ (pc[p] \in {"loop", "scoring"} /\ pc'[p] # "done") =>
              idx'[p] \in {idx[p], idx[p] + 1}
        /\ (pc[p] # "scoring" /\ pc'[p] = "scoring") =>
              /\ pc[p] = "loop"
              /\ attempts'[p][idx[p]] = 1
              /\ \A j \in (idx[p] + 1)..Len(candidates[p]) : attempts[p][j] = 0

\* when the selection starts the loop is over and every scoring of the run
\* has left its outcome in the record
C12_WritesBeforeSelect ==
    \A p \in Procs :
        pc[p] \in {"select", "classify"} =>
            /\ idx[p] = Len(candidates[p]) + 1
            /\ \A i \in 1..Len(candidates[p]) :
                  attempts[p][i] = 1 => "face" \in DOMAIN Cands[i]

\* the selected candidate is an entry of the record as the populate step of
\* the same run left it, with a score no lower than the scores of that run;
\* and a run that wrote a numeric score returns a candidate
C12_BestReflectsRun ==
    \A p \in Procs :
        /\ (pc[p] = "classify") =>
              /\ best[p] # <<>>
              /\ \E i \in 1..Len(Cands) : best[p][1] = Cands[i]
              /\ \A i \in 1..Len(Cands) :
                    (attempts[p][i] = 1 /\ UsableScore(Cands[i])) =>
                        Cands[i]["face"]["sigmoid"] <= best[p][1]["face"]["sigmoid"]
        /\ (pc[p] = "done" /\ result[p].kind = "return" /\ Len(attempts[p]) = Len(Cands)
              /\ \E i \in 1..Len(Cands) : attempts[p][i] = 1 /\ UsableScore(Cands[i])) =>
              NamesCandidate(result[p])

\* C12: a run goes populate, select, classify in that order; when the
\* selection reads the record every face-metrics write of the run's populate
\* step is in it, so the selected candidate reflects the scores of the same
\* run; and the scorer is called for one candidate at a time, in the stored
\* order of the candidates.
C12_ForwardOrder ==
    /\ [](C12_WritesBeforeSelect /\ C12_BestReflectsRun)
    /\ [][C12_StepsForward]_vars

\* a run has scored both candidates, the second higher than the first, and
\* has selected the second
C12_Witness ==
    \E p \in Procs :
        /\ pc[p] = "classify"
        /\ attempts[p] = <<1, 1>>
        /\ UsableScore(Cands[1]) /\ UsableScore(Cands[2])
        /\ Cands[1]["face"]["sigmoid"] < Cands[2]["face"]["sigmoid"]
        /\ best[p][1] = Cands[2]

\* C13 as stated: once the scorer has returned a mapping for a candidate,
\* the face metrics of that candidate are that mapping, until the populate
\* step is over and after; and a candidate scored in the run has the error
\* marker only if the scorer failed for it (it raised, or what it returned
\* was no mapping), so the marker never replaces a stored result.
C13_StoredIsReturned ==
    \A p \in Procs :
        last[p].i # 0 =>
            /\ last[p].kind \in {"metrics", "printfails"} =>
                  /\ "face" \in DOMAIN Cands[last[p].i]
                  /\ Cands[last[p].i]["face"] = last[p].fm
            /\ Get(Cands[last[p].i], "face") = ErrorMarker =>
                  last[p].kind \in {"raise", "none"}

\* the entry has no profile_url, or no photo reference at all
C14_Malformed(c) ==
    \/ "profile_url" \notin DOMAIN c
    \/ \A k \in {"photo_path", "image_file"} : k \notin DOMAIN c \/ c[k] = ""

\* C14: an entry without profile_url or without photo reference is never
\* passed to compare_faces and never gets face metrics; no run ends with an
\* exception; and when the populate step is over the other entries have
\* been processed: each eligible one has face metrics.
C14_MalformedSkipped ==
    /\ \A i \in 1..Len(Cands) :
          C14_Malformed(Cands[i]) =>
              /\ calls[i] = 0
              /\ "face" \notin DOMAIN Cands[i]
              /\ \A p \in Procs : Len(attempts[p]) = Len(Cands) => attempts[p][i] = 0
    /\ \A p \in Procs :
          /\ result[p] # Raised
          /\ pc[p] = "select" =>
                \A j \in 1..Len(Cands) : Eligible(Cands[j]) => "face" \in DOMAIN Cands[j]

\* the populate step is over: it skipped the first entry, which is
\* malformed, and scored the second
C14_Witness ==
    \E p \in Procs :
        /\ pc[p] = "select"
        /\ Len(Cands) = 2
        /\ C14_Malformed(Cands[1])
        /\ attempts[p] = <<0, 1>>
        /\ writes[p] >= 1
        /\ "face" \in DOMAIN Cands[2]

\* the URLs of a sequence, without repetition
C15_Distinct(urls) == \A i, j \in 1..Len(urls) : urls[i] = urls[j] => i = j

\* the entries of the record that differ from what the record held before
\* the call, or that it did not hold
C15_Touched ==
    {i \in 1..Len(Cands) : i > Len(sc.before) \/ Cands[i] # sc.before[i]}

\* C15 as stated: a call that returns has returned a count of at most limit,
\* has added or updated at most limit entries of the record, and has handled
\* no profile URL twice.
C15_AtMostLimit ==
    (sc.pc = "done" /\ sc.result.kind = "return") =>
        /\ sc.result.value <= sc.limit
        /\ Cardinality(C15_Touched) <= sc.limit
        /\ Len(sc.handled) <= sc.limit
        /\ C15_Distinct(sc.handled)

\* the image files the call has written for a profile
C16_Saved(url) == {f[2] : f \in {g \in sc.files : g[1] = url}}

\* the entry had a photo before the call
C16_HadPhoto(url) ==
    \E i \in 1..Len(sc.before) :
        /\ Get(sc.before[i], "profile_url") = url
        /\ Truthy(Get(sc.before[i], "photo_path"))
        /\ Get(sc.before[i], "photo_path") # NO_IMAGE_TOKEN

\* C16 as stated: when a scrape run is over, an entry that had a photo has
\* the photo reference it had; every other profile the run handled has, for
\* photo reference, the path of an image file the run saved or the sentinel;
\* and it has the sentinel only if no image was saved for it.
C16_PhotoOrSentinel ==
    (sc.pc = "done" /\ sc.result.kind = "return") =>
        /\ \A i \in 1..Len(sc.before) :
              C16_HadPhoto(Get(sc.before[i], "profile_url")) =>
                  Get(Cands[i], "photo_path") = Get(sc.before[i], "photo_path")
        /\ \A i \in 1..Len(Cands) :
              LET url == Get(Cands[i], "profile_url")
                  photo == Get(Cands[i], "photo_path")
              IN  (url \in sc.seen_profiles /\ ~C16_HadPhoto(url)) =>
                      /\ photo \in C16_Saved(url) \cup {NO_IMAGE_TOKEN}
                      /\ photo = NO_IMAGE_TOKEN => C16_Saved(url) = {}

\* the entries of the populate run of p that hold the URL and for which the
\* run has called the scorer
C17_ScoredFor(p, url) ==
    {i \in 1..Len(candidates[p]) :
        Get(candidates[p][i], "profile_url") = url /\ attempts[p][i] >= 1}

\* C17: in one populate run the scorer is called for at most one of the
\* entries that hold a given profile URL, and once for that entry, also when
\* two entries of the record hold the same URL: by the time the loop is at the
\* second, the persisted record has face metrics for the URL.
C17_OncePerUrl ==
    \A p \in Procs :
        /\ \A i \in 1..Len(attempts[p]) : attempts[p][i] <= 1
        /\ \A i \in 1..Len(candidates[p]) :
              Cardinality(C17_ScoredFor(p, Get(candidates[p][i], "profile_url"))) <= 1

\* a populate run is over on a record whose two first entries hold the same
\* URL: it called the scorer for the first and passed over the second
C17_Witness ==
    \E p \in Procs :
        /\ pc[p] = "select"
        /\ Len(candidates[p]) >= 2
        /\ Get(candidates[p][1], "profile_url") = Get(candidates[p][2], "profile_url")
        /\ "face" \notin DOMAIN candidates[p][2]
        /\ attempts[p][1] = 1 /\ attempts[p][2] = 0

\* a call of the scorer that starts for a candidate already passed to the
\* scorer starts while another run is between its has-face check and its
\* write for that candidate
C18_SecondCallInWindow ==
    \A p \in Procs :
        (pc[p] = "loop" /\ pc'[p] = "scoring" /\ calls[idx[p]] >= 1) =>
            \E q \in Procs \ {p} : pc[q] = "scoring" /\ idx[q] = idx[p]

\* C18: the has-face check and the write of the face metrics are two steps.
\* A candidate is passed to the scorer a second time only by a run that made
\* its check while another run was between its own check and write for the
\* same candidate, which takes two runs on the record at the same time (a
\* state where a candidate has been scored twice is then reachable); runs
\* that come one after the other never do it.
C18_TwiceOnlyWhenInterleaved == [][C18_SecondCallInWindow]_vars

\* the same candidate has been passed to the scorer twice, by two runs that
\* each made one call for it
C18_Witness ==
    \E i \in 1..Len(Cands) :
        /\ calls[i] = 2
        /\ \A p \in Procs : Len(attempts[p]) = Len(Cands) /\ attempts[p][i] = 1

====
